---- MODULE Spec2Model ----
(***************************************************************************)
(* Model of app.py of JSONVisualizer: the type classifier, the tree        *)
(* renderer, the path search engine and the Streamlit script main().       *)
(*                                                                         *)
(* Python strings are sequences of one-character strings, so that          *)
(* substring tests, lower(), str(), repr() and json.dumps() are computed   *)
(* character by character.  A parsed JSON value is a record                *)
(* [type |-> <Python class name>, val |-> <payload>]; a dict's payload is  *)
(* the sequence of its <<key, value>> pairs in insertion order.            *)
(***************************************************************************)
EXTENDS Integers, Sequences, FiniteSets, TLC

VARIABLES
    \* --- direct calls of the three functions
    data,           \* the JSON value a function is applied to
    term,           \* the search term it is applied with
    call,           \* which function has been applied ("none" before)
    vtype,          \* result of get_value_type(data)
    \* --- the script main()
    uploaded_file,  \* state of the st.file_uploader widget
    search_input,   \* state of the st.text_input widget
    locals,         \* names bound in main's frame at the end of the run
    json_data,      \* main's local json_data
    search_term,    \* main's local search_term
    error_shown,    \* st.error was called in this run (parse failure)
    search_calls,   \* terms search_json was invoked with in this run
    copied,         \* the copy button branch ran in this run
    info_shown,     \* "Upload a JSON file ..." was shown in this run
    \* --- results (of a direct call, or of the run of main)
    hits,           \* list returned by search_json
    tree            \* node returned by render_json_tree

vars == <<data, term, call, vtype, uploaded_file, search_input, locals,
          json_data, search_term, error_shown, search_calls, copied,
          info_shown, hits, tree>>

fnVars == <<data, term, call, vtype>>
mainVars == <<uploaded_file, search_input, locals, json_data, search_term,
              error_shown, search_calls, copied, info_shown>>

-----------------------------------------------------------------------------
\* Bounds of the model
MaxDepth == 3       \* nesting depth of the documents the functions are applied to
UploadDepth == 1    \* nesting depth of the documents uploaded to main

-----------------------------------------------------------------------------
\* Characters and Python string primitives

UpperCase == <<"A","B","C","D","E","F","G","H","I","J","K","L","M",
               "N","O","P","Q","R","S","T","U","V","W","X","Y","Z">>
LowerCase == <<"a","b","c","d","e","f","g","h","i","j","k","l","m",
               "n","o","p","q","r","s","t","u","v","w","x","y","z">>
Digits == <<"0","1","2","3","4","5","6","7","8","9">>

\* str.lower() of one character
lower_char(c) ==
    IF \E i \in DOMAIN UpperCase : UpperCase[i] = c
    THEN LowerCase[CHOOSE i \in DOMAIN UpperCase : UpperCase[i] = c]
    ELSE c

\* str.lower()
lower(s) == [i \in 1..Len(s) |-> lower_char(s[i])]

\* needle in hay  (Python substring test; the empty needle is in every string)
Contains(hay, needle) ==
    \E i \in 0..(Len(hay) - Len(needle)) :
        SubSeq(hay, i + 1, i + Len(needle)) = needle

\* str(n) of an int
RECURSIVE int_str(_)
int_str(n) ==
    IF n < 0 THEN <<"-">> \o int_str(0 - n)
    ELSE IF n < 10 THEN <<Digits[n + 1]>>
    ELSE int_str(n \div 10) \o <<Digits[(n % 10) + 1]>>

\* sep.join(parts)
RECURSIVE join(_, _)
join(sep, parts) ==
    IF Len(parts) = 0 THEN <<>>
    ELSE IF Len(parts) = 1 THEN parts[1]
    ELSE parts[1] \o sep \o join(sep, Tail(parts))

-----------------------------------------------------------------------------
\* Python values produced by json.loads

PyNone == [type |-> "NoneType"]
PyBool(b) == [type |-> "bool", val |-> b]
PyInt(n) == [type |-> "int", val |-> n]
PyStr(s) == [type |-> "str", val |-> s]
PyDict(items) == [type |-> "dict", val |-> items]
PyList(items) == [type |-> "list", val |-> items]

\* isinstance(value, classes): bool is a subclass of int
isinstance(value, classes) ==
    \/ value.type \in classes
    \/ value.type = "bool" /\ "int" \in classes

\* truth value of a Python value in an `if`
truthy(value) ==
    CASE value.type = "NoneType" -> FALSE
      [] value.type = "bool" -> value.val
      [] value.type = "int" -> value.val # 0
      [] OTHER -> Len(value.val) > 0

\* repr(value) for the values json.loads produces (strings without quotes
\* or backslashes, so repr uses single quotes and no escapes)
RECURSIVE py_repr(_)
py_repr(value) ==
    CASE value.type = "NoneType" -> <<"N","o","n","e">>
      [] value.type = "bool" ->
            IF value.val THEN <<"T","r","u","e">> ELSE <<"F","a","l","s","e">>
      [] value.type = "int" -> int_str(value.val)
      [] value.type = "str" -> <<"'">> \o value.val \o <<"'">>
      [] value.type = "dict" ->
            <<"{">> \o
            join(<<",", " ">>,
                 [i \in 1..Len(value.val) |->
                    <<"'">> \o value.val[i][1] \o <<"'">> \o <<":", " ">> \o
                    py_repr(value.val[i][2])]) \o
            <<"}">>
      [] value.type = "list" ->
            <<"[">> \o
            join(<<",", " ">>,
                 [i \in 1..Len(value.val) |-> py_repr(value.val[i])]) \o
            <<"]">>

\* str(value): the string itself for a str, repr(value) otherwise
py_str(value) ==
    IF value.type = "str" THEN value.val ELSE py_repr(value)

\* json.dumps(value) with the default separators (", " and ": "), for ints and
\* for strings of printable ASCII without quotes or backslashes (no escapes)
RECURSIVE json_dumps(_)
json_dumps(value) ==
    CASE value.type = "NoneType" -> <<"n","u","l","l">>
      [] value.type = "bool" ->
            IF value.val THEN <<"t","r","u","e">> ELSE <<"f","a","l","s","e">>
      [] value.type = "int" -> int_str(value.val)
      [] value.type = "str" -> <<"\"">> \o value.val \o <<"\"">>
      [] value.type = "dict" ->
            <<"{">> \o
            join(<<",", " ">>,
                 [i \in 1..Len(value.val) |->
                    <<"\"">> \o value.val[i][1] \o <<"\"">> \o <<":", " ">> \o
                    json_dumps(value.val[i][2])]) \o
            <<"}">>
      [] value.type = "list" ->
            <<"[">> \o
            join(<<",", " ">>,
                 [i \in 1..Len(value.val) |-> json_dumps(value.val[i])]) \o
            <<"]">>

-----------------------------------------------------------------------------
\* get_value_type

get_value_type(value) ==
    IF isinstance(value, {"str"}) THEN "string"
    ELSE IF isinstance(value, {"int", "float"}) THEN "number"
    ELSE IF isinstance(value, {"bool"}) THEN "boolean"
    ELSE IF value = PyNone THEN "null"
    ELSE IF isinstance(value, {"dict"}) THEN "object"
    ELSE IF isinstance(value, {"list"}) THEN "array"
    ELSE "unknown"

-----------------------------------------------------------------------------
\* render_json_tree
\*
\* The markup string the code builds is kept as the structure it spells out:
\* a <div class="tree-node ..."> is a record, the <li> items of its <ul> the
\* sequence `content`.  A container node carries the `open` attribute of its
\* <details>, a leaf node the <span> of its value.

\* f'[{i}]'
index_label(i) == <<"[">> \o int_str(i) \o <<"]">>

\* "json-highlight" if search_term and search_term.lower() in str(data).lower() else ""
highlight_class(data_, search_term_) ==
    IF Len(search_term_) > 0 /\ Contains(lower(py_str(data_)), lower(search_term_))
    THEN "json-highlight" ELSE ""

OpenWithinThree(level) == level <= 2

\* {'open' if level < 2 else ''}
details_open(level) == level < 2

AssignLi(content, rendered) == <<rendered>>

\* content += f"<li>{...}</li>"
append_li(content, rendered) == Append(content, rendered)

\* the loop body folded over the rendered children, in iteration order
RECURSIVE ul(_, _)
ul(content, rendered) ==
    IF Len(rendered) = 0 THEN content
    ELSE ul(append_li(content, Head(rendered)), Tail(rendered))

\* the typed <span> of a leaf value
leaf_span(data_, value_type) ==
    CASE value_type = "string" ->
            [class |-> "json-string", text |-> <<"\"">> \o data_.val \o <<"\"">>]
      [] value_type = "number" ->
            [class |-> "json-number", text |-> py_str(data_)]
      [] value_type = "boolean" ->
            [class |-> "json-boolean", text |-> lower(py_str(data_))]
      [] value_type = "null" ->
            [class |-> "json-null", text |-> <<"n","u","l","l">>]
      [] OTHER ->
            [class |-> "", text |-> py_str(data_)]

RECURSIVE render_json_tree(_, _, _, _)
render_json_tree(data_, key, search_term_, level) ==
    LET value_type == get_value_type(data_) IN
    IF value_type \in {"object", "array"}
    THEN
        LET rendered ==
                IF value_type = "object"
                THEN [i \in 1..Len(data_.val) |->
                        render_json_tree(data_.val[i][2], data_.val[i][1],
                                         search_term_, level + 1)]
                ELSE [i \in 1..Len(data_.val) |->
                        render_json_tree(data_.val[i], index_label(i - 1),
                                         search_term_, level + 1)]
        IN [node |-> "container",
            highlight_class |-> highlight_class(data_, search_term_),
            open |-> details_open(level),
            key |-> key,
            open_bracket |-> IF value_type = "object" THEN "{" ELSE "[",
            close_bracket |-> IF value_type = "object" THEN "}" ELSE "]",
            content |-> ul(<<>>, rendered)]
    ELSE
        [node |-> "leaf",
         highlight_class |-> highlight_class(data_, search_term_),
         key |-> key,
         value |-> leaf_span(data_, value_type)]

-----------------------------------------------------------------------------
\* search_json
\*
\* A hit is the dict {"path", "key", "value"} the code appends.  Its fourth
\* field `loc` is a ghost: the route from the root to the entry as child
\* positions (1-based), which the code does not compute and nothing in the
\* model of the code reads.  It lets properties refer to a hit's location.

NewPathAlwaysDotted(path, k) == path \o <<".">> \o k

\* f"{path}.{k}" if path else k
new_path(path, k) ==
    IF Len(path) > 0 THEN path \o <<".">> \o k ELSE k

MatchesKeyOnly(term_, k, v) == Contains(lower(k), lower(term_))

\* term.lower() in k.lower() or term.lower() in json.dumps(v).lower()
entry_matches(term_, k, v) ==
    \/ Contains(lower(k), lower(term_))
    \/ Contains(lower(json_dumps(v)), lower(term_))

EntryAfterDescendants(results, entry, below) == results \o below \o entry

\* results.append(...) when the entry matches, then results.extend(search_json(v, ...))
append_then_extend(results, entry, below) == results \o entry \o below

RECURSIVE search_items(_, _, _, _, _, _)
RECURSIVE search_json(_, _, _, _)

\* the two for loops of search_json, from item i on
search_items(data_, term_, path, loc, i, results) ==
    IF i > Len(data_.val) THEN results
    ELSE IF data_.type = "dict"
    THEN LET k == data_.val[i][1]
             v == data_.val[i][2]
             np == new_path(path, k)
             entry == IF entry_matches(term_, k, v)
                      THEN <<[path |-> np, key |-> k, value |-> v,
                              loc |-> Append(loc, i)]>>
                      ELSE <<>>
         IN search_items(data_, term_, path, loc, i + 1,
                append_then_extend(results, entry,
                    search_json(v, term_, np, Append(loc, i))))
    ELSE LET np == path \o index_label(i - 1)
         IN search_items(data_, term_, path, loc, i + 1,
                results \o search_json(data_.val[i], term_, np, Append(loc, i)))

search_json(data_, term_, path, loc) ==
    IF isinstance(data_, {"dict"}) \/ isinstance(data_, {"list"})
    THEN search_items(data_, term_, path, loc, 1, <<>>)
    ELSE <<>>

-----------------------------------------------------------------------------
\* remove_comments and parse_json_file

\* least j >= from with s[j] = c, or 0
RECURSIVE find_char(_, _, _)
find_char(s, c, from) ==
    IF from > Len(s) THEN 0
    ELSE IF s[from] = c THEN from
    ELSE find_char(s, c, from + 1)

\* least j >= from with s[j] = c1 and s[j+1] = c2, or 0
RECURSIVE find_pair(_, _, _, _)
find_pair(s, c1, c2, from) ==
    IF from + 1 > Len(s) THEN 0
    ELSE IF s[from] = c1 /\ s[from + 1] = c2 THEN from
    ELSE find_pair(s, c1, c2, from + 1)

\* least j >= from with s[j] a line break, or Len(s) + 1
RECURSIVE line_end(_, _)
line_end(s, from) ==
    IF from > Len(s) THEN Len(s) + 1
    ELSE IF s[from] \in {"\n", "\r"} THEN from
    ELSE line_end(s, from + 1)

\* regex.sub(_replacer, json_string) from position i on: at each position the
\* pattern (\".*?\"|\'.*?\')|(/\*.*?\*/|//[^\r\n]*$) is tried, left to right;
\* a quoted group is copied, a comment is dropped, an unmatched character kept
RECURSIVE sub_from(_, _)
sub_from(s, i) ==
    IF i > Len(s) THEN <<>>
    ELSE IF s[i] \in {"\"", "'"} /\ find_char(s, s[i], i + 1) # 0
    THEN LET j == find_char(s, s[i], i + 1)
         IN SubSeq(s, i, j) \o sub_from(s, j + 1)
    ELSE IF i < Len(s) /\ s[i] = "/" /\ s[i + 1] = "*"
            /\ find_pair(s, "*", "/", i + 2) # 0
    THEN sub_from(s, find_pair(s, "*", "/", i + 2) + 2)
    ELSE IF i < Len(s) /\ s[i] = "/" /\ s[i + 1] = "/"
            /\ LET e == line_end(s, i + 2) IN e > Len(s) \/ s[e] = "\n"
    THEN sub_from(s, line_end(s, i + 2))
    ELSE <<s[i]>> \o sub_from(s, i + 1)

remove_comments(json_string) == sub_from(json_string, 1)

-----------------------------------------------------------------------------
\* Documents and terms

root == <<"r","o","o","t">>

\* {"list": [10, 20]}
ListDoc == PyDict(<< <<<<"l","i","s","t">>, PyList(<<PyInt(10), PyInt(20)>>)>> >>)

\* {"a": 1, "b": {"c": 2}}
NestedDoc ==
    PyDict(<< <<<<"a">>, PyInt(1)>>,
              <<<<"b">>, PyDict(<< <<<<"c">>, PyInt(2)>> >>)>> >>)

\* {"a": [{"b": 10}], "a[0]": {"b": false}}
BracketKeyDoc ==
    PyDict(<< <<<<"a">>, PyList(<<PyDict(<< <<<<"b">>, PyInt(10)>> >>)>>)>>,
              <<<<"a","[","0","]">>, PyDict(<< <<<<"b">>, PyBool(FALSE)>> >>)>> >>)

ExampleDocs == {ListDoc, NestedDoc, BracketKeyDoc, PyDict(<<>>), PyList(<<>>)}

Leaves == {PyNone, PyBool(TRUE), PyInt(10), PyStr(<<"A">>)}

\* the containers built around a value v
Wraps(v) ==
    { PyDict(<< <<<<"b">>, v>> >>),
      PyList(<<v>>),
      PyDict(<< <<<<"a",".","b">>, PyInt(10)>>, <<<<"a">>, v>> >>),
      PyDict(<< <<<<>>, v>>, <<<<"b">>, PyNone>> >>),
      PyList(<<v, PyDict(<< <<<<"a">>, PyStr(<<"A">>)>> >>)>>) }

\* the values nested at most d deep
RECURSIVE DocsUpTo(_)
DocsUpTo(d) ==
    IF d = 0 THEN Leaves
    ELSE LET below == DocsUpTo(d - 1)
         IN Leaves \cup UNION {Wraps(v) : v \in below}

Docs == DocsUpTo(MaxDepth) \cup ExampleDocs

Terms == { <<>>, <<" ">>, <<"A">>, <<"1">>, <<"2","0">>, <<"n","u","l","l">> }

UploadDocs == DocsUpTo(UploadDepth) \cup ExampleDocs

\* json.dumps of every uploaded document
DumpsTable == [d \in UploadDocs |-> json_dumps(d)]

\* the uploaded files: a document as text, the same followed by a // comment,
\* and a container cut short before its closing bracket
UploadTexts ==
    {DumpsTable[d] : d \in UploadDocs}
    \cup {DumpsTable[d] \o <<"/","/","c">> : d \in UploadDocs}
    \cup {SubSeq(DumpsTable[d], 1, Len(DumpsTable[d]) - 1) :
            d \in {x \in UploadDocs : x.type \in {"dict", "list"}}}

\* json.loads on the texts above: the document whose text it is, or JSONDecodeError
json_loads(text) ==
    IF \E d \in UploadDocs : DumpsTable[d] = text
    THEN [value |-> CHOOSE d \in UploadDocs : DumpsTable[d] = text, raised |-> FALSE]
    ELSE [value |-> PyNone, raised |-> TRUE]

\* returns the value, or reports the error with st.error and returns None
parse_json_file(file_content) ==
    LET json_content == remove_comments(file_content)
        loaded == json_loads(json_content)
    IN IF loaded.raised
       THEN [value |-> PyNone, error |-> TRUE]
       ELSE [value |-> loaded.value, error |-> FALSE]

-----------------------------------------------------------------------------
\* main: one run of the script, as Streamlit performs it on page load and
\* after every widget interaction

NoFile == [present |-> FALSE, content |-> <<>>]
NoTree == [node |-> "none"]

\* file: the uploader's value; typed: the text input's value; clicked: whether
\* this run was triggered by the copy button
main(file, typed, clicked) ==
    LET uploaded == file.present                       \* uploaded_file is not None
        parsed == IF uploaded THEN parse_json_file(file.content)
                  ELSE [value |-> PyNone, error |-> FALSE]
        jd == parsed.value
        shown == uploaded /\ truthy(jd)                \* if json_data:
        searched == shown /\ Len(typed) > 0            \* if search_term:
        bound == (IF uploaded THEN {"json_data"} ELSE {})
                 \cup (IF shown THEN {"search_term"} ELSE {})
    IN /\ uploaded_file' = file
       /\ search_input' = IF shown THEN typed ELSE <<>>
       /\ locals' = bound
       /\ json_data' = jd
       /\ search_term' = IF shown THEN typed ELSE <<>>
       /\ error_shown' = parsed.error
       /\ search_calls' = IF searched THEN <<typed>> ELSE <<>>
       /\ hits' = IF searched THEN search_json(jd, typed, <<>>, <<>>) ELSE <<>>
       /\ copied' = (shown /\ clicked)
       /\ tree' = IF "json_data" \in bound                 \* 'json_data' in locals()
                  THEN render_json_tree(jd, root,
                           IF "search_term" \in bound THEN typed ELSE <<>>, 0)
                  ELSE NoTree
       /\ info_shown' = ("json_data" \notin bound)
       /\ UNCHANGED fnVars

\* the user picks a file in the uploader
UploadFile ==
    /\ ~uploaded_file.present
    /\ \E f \in UploadTexts :
          main([present |-> TRUE, content |-> f], search_input, FALSE)

\* the user removes the file from the uploader
RemoveFile ==
    /\ uploaded_file.present
    /\ main(NoFile, search_input, FALSE)

\* the user enters a term in the text input (only there when it was drawn)
TypeSearch ==
    /\ "search_term" \in locals
    /\ \E t \in Terms :
          /\ t # search_input
          /\ main(uploaded_file, t, FALSE)

\* the user clicks the copy button (only there when it was drawn)
ClickCopy ==
    /\ "search_term" \in locals
    /\ main(uploaded_file, search_input, TRUE)

\* the page as first loaded: main has run with no file
Init ==
    /\ data = PyNone /\ term = <<>> /\ call = "none" /\ vtype = ""
    /\ uploaded_file = NoFile
    /\ search_input = <<>>
    /\ locals = {}
    /\ json_data = PyNone
    /\ search_term = <<>>
    /\ error_shown = FALSE
    /\ search_calls = <<>>
    /\ copied = FALSE
    /\ info_shown = TRUE
    /\ hits = <<>>
    /\ tree = NoTree

Next == UploadFile \/ RemoveFile \/ TypeSearch \/ ClickCopy

Spec == Init /\ [][Next]_vars

-----------------------------------------------------------------------------
\* The three functions applied directly to a document and a term

FnInit ==
    /\ data \in Docs /\ term \in Terms /\ call = "none" /\ vtype = ""
    /\ uploaded_file = NoFile
    /\ search_input = <<>>
    /\ locals = {}
    /\ json_data = PyNone
    /\ search_term = <<>>
    /\ error_shown = FALSE
    /\ search_calls = <<>>
    /\ copied = FALSE
    /\ info_shown = TRUE
    /\ hits = <<>>
    /\ tree = NoTree

CallGetValueType ==
    /\ call = "none"
    /\ call' = "get_value_type"
    /\ vtype' = get_value_type(data)
    /\ UNCHANGED <<data, term, hits, tree, mainVars>>

CallRenderJsonTree ==
    /\ call = "none"
    /\ call' = "render_json_tree"
    /\ tree' = render_json_tree(data, root, term, 0)
    /\ UNCHANGED <<data, term, vtype, hits, mainVars>>

CallSearchJson ==
    /\ call = "none"
    /\ call' = "search_json"
    /\ hits' = search_json(data, term, <<>>, <<>>)
    /\ UNCHANGED <<data, term, vtype, tree, mainVars>>

FnNext == CallGetValueType \/ CallRenderJsonTree \/ CallSearchJson

FnSpec == FnInit /\ [][FnNext]_vars

-----------------------------------------------------------------------------
\* Vocabulary of the properties: locations in a document and in a rendered tree

IsContainer(v) == v.type \in {"dict", "list"}

\* the i-th child of a container
ChildAt(v, i) == IF v.type = "dict" THEN v.val[i][2] ELSE v.val[i]

\* every route from the root of v, as a sequence of child positions
RECURSIVE Locs(_)
Locs(v) ==
    IF IsContainer(v)
    THEN {<<>>} \cup UNION {{<<i>> \o l : l \in Locs(ChildAt(v, i))} : i \in 1..Len(v.val)}
    ELSE {<<>>}

RECURSIVE ValueAt(_, _)
ValueAt(v, loc) ==
    IF Len(loc) = 0 THEN v ELSE ValueAt(ChildAt(v, Head(loc)), Tail(loc))

Parent(loc) == SubSeq(loc, 1, Len(loc) - 1)

\* the object entries (key, value) of a document
Entries(v) ==
    {l \in Locs(v) : Len(l) > 0 /\ ValueAt(v, Parent(l)).type = "dict"}

KeyAt(v, loc) == ValueAt(v, Parent(loc)).val[loc[Len(loc)]][1]

IsProperPrefix(a, b) == Len(a) < Len(b) /\ SubSeq(b, 1, Len(a)) = a

\* a comes before b in a pre-order walk: a is an ancestor of b, or a branches
\* off to an earlier sibling where the two routes first differ
PreOrderBefore(a, b) ==
    \/ IsProperPrefix(a, b)
    \/ \E n \in 1..Len(a) :
          /\ n <= Len(b)
          /\ SubSeq(a, 1, n - 1) = SubSeq(b, 1, n - 1)
          /\ a[n] < b[n]

\* the number of object keys and array elements in the whole subtree
RECURSIVE CountEntries(_)
RECURSIVE SumEntries(_, _)
SumEntries(v, i) ==
    IF i > Len(v.val) THEN 0
    ELSE 1 + CountEntries(ChildAt(v, i)) + SumEntries(v, i + 1)
CountEntries(v) == IF IsContainer(v) THEN SumEntries(v, 1) ELSE 0

RECURSIVE NodeLocs(_)
NodeLocs(n) ==
    IF n.node = "container"
    THEN {<<>>} \cup UNION {{<<i>> \o l : l \in NodeLocs(n.content[i])} : i \in 1..Len(n.content)}
    ELSE {<<>>}

RECURSIVE NodeAt(_, _)
NodeAt(n, loc) ==
    IF Len(loc) = 0 THEN n ELSE NodeAt(n.content[Head(loc)], Tail(loc))

CountNodes(n) == Cardinality(NodeLocs(n))

\* the label a child is rendered under: its key, or [index] (zero-based)
LabelAt(v, loc) ==
    IF Len(loc) = 0 THEN root
    ELSE IF ValueAt(v, Parent(loc)).type = "dict" THEN KeyAt(v, loc)
    ELSE <<"[">> \o int_str(loc[Len(loc)] - 1) \o <<"]">>

\* the tag of each of the six JSON variants
JsonVariant(v) ==
    CASE v.type = "str" -> "string"
      [] v.type = "int" -> "number"
      [] v.type = "bool" -> "boolean"
      [] v.type = "NoneType" -> "null"
      [] v.type = "dict" -> "object"
      [] v.type = "list" -> "array"

\* the case-insensitive substring test of the specification
TermIn(text, t) == Contains(lower(text), lower(t))

IsBlank(t) == \A i \in 1..Len(t) : t[i] \in {" ", "\t", "\n", "\r"}

HitLocs == {hits[i].loc : i \in 1..Len(hits)}

-----------------------------------------------------------------------------
\* Properties

\* C1: for a non-empty term, search_json returns one hit for exactly those
\* object entries of the document whose key, or the json.dumps text of whose
\* whole value, contains the term (both lowercased); it looks inside every
\* value whether or not the entry matched; an array slot is never a hit.
C1_HitsAreExactlyTheMatchingEntries ==
    (call = "search_json" /\ term # <<>>) =>
        /\ Cardinality(HitLocs) = Len(hits)
        /\ HitLocs = {l \in Entries(data) :
                        \/ TermIn(KeyAt(data, l), term)
                        \/ TermIn(json_dumps(ValueAt(data, l)), term)}
        /\ \A i \in 1..Len(hits) :
              /\ hits[i].key = KeyAt(data, hits[i].loc)
              /\ hits[i].value = ValueAt(data, hits[i].loc)

\* a search that hit an entry below a matching entry and below an array
\* element, and left some entry out
C1_Witness ==
    /\ call = "search_json" /\ term # <<>>
    /\ \E i, j \in 1..Len(hits) : IsProperPrefix(hits[i].loc, hits[j].loc)
    /\ \E i \in 1..Len(hits) : \E n \in 1..Len(hits[i].loc) :
          ValueAt(data, SubSeq(hits[i].loc, 1, n - 1)).type = "list"
    /\ Entries(data) \ HitLocs # {}

\* C2: a rendered node is highlighted exactly when the term is non-empty and
\* is contained (lowercased) in the serialization of the node's whole value
\* that search_json matches values against, i.e. its json.dumps text.
C2_HighlightIffSearchValueMatch ==
    call = "render_json_tree" =>
        \A p \in NodeLocs(tree) :
            (NodeAt(tree, p).highlight_class = "json-highlight")
                <=> (term # <<>> /\ TermIn(json_dumps(ValueAt(data, p)), term))

\* C3: get_value_type returns the tag of the value's JSON variant; a boolean
\* is "boolean", never "number".
C3_ClassifierReturnsTheVariantTag ==
    call = "get_value_type" => vtype = JsonVariant(data)

\* C4: in a run of main in which parse_json_file failed (the error was
\* shown), render_json_tree is not called, search_json is not called and no
\* tree is displayed.
C4_ParseFailureBlocksTree ==
    error_shown => (tree = NoTree /\ search_calls = <<>>)

\* C5 (as stated): for {"list": [10, 20]} and the term "20", search_json
\* returns a single hit, with path "list[1]" and value 20.
C5_HitAtArrayElementPath ==
    (call = "search_json" /\ data = ListDoc /\ term = <<"2","0">>) =>
        /\ Len(hits) = 1
        /\ hits[1].path = <<"l","i","s","t","[","1","]">>
        /\ hits[1].value = PyInt(20)

\* C5 (amended): for {"list": [10, 20]} and the term "20", search_json
\* returns a single hit, for the entry "list": its path is "list", its key
\* "list" and its value the whole array [10, 20].
C5_HitAtEnclosingEntry ==
    (call = "search_json" /\ data = ListDoc /\ term = <<"2","0">>) =>
        /\ Len(hits) = 1
        /\ hits[1].path = <<"l","i","s","t">>
        /\ hits[1].key = <<"l","i","s","t">>
        /\ hits[1].value = PyList(<<PyInt(10), PyInt(20)>>)

\* search_json has been applied to {"list": [10, 20]} with the term "20"
C5_Witness ==
    /\ call = "search_json" /\ data = ListDoc /\ term = <<"2","0">>
    /\ Len(hits) > 0

\* C6: the hits are in pre-order: the hit of an entry precedes the hits from
\* inside its value, and the hits of an earlier sibling and of everything
\* below it precede those of a later sibling.
C6_HitsInPreOrder ==
    call = "search_json" =>
        \A i, j \in 1..Len(hits) :
            i < j => PreOrderBefore(hits[i].loc, hits[j].loc)

\* a search whose hits include an entry followed by a hit from inside it,
\* followed by a hit of a later sibling of that entry
C6_Witness ==
    /\ call = "search_json"
    /\ \E i, j, k \in 1..Len(hits) :
          /\ i < j /\ j < k
          /\ IsProperPrefix(hits[i].loc, hits[j].loc)
          /\ Len(hits[k].loc) = Len(hits[i].loc)
          /\ Parent(hits[k].loc) = Parent(hits[i].loc)

\* C7: in one result of search_json, hits of different locations carry
\* different paths, and the path of a hit below another hit's entry has that
\* entry's path as a proper prefix.
C7_PathsIdentifyLocations ==
    call = "search_json" =>
        \A i, j \in 1..Len(hits) :
            /\ hits[i].loc # hits[j].loc => hits[i].path # hits[j].path
            /\ IsProperPrefix(hits[i].loc, hits[j].loc)
                  => IsProperPrefix(hits[i].path, hits[j].path)

\* C8: main never invokes search_json with an empty or whitespace-only term.
C8_NoSearchWithBlankTerm ==
    \A i \in 1..Len(search_calls) : ~IsBlank(search_calls[i])

\* C9: in the tree rendered from the root at level 0, a container node at
\* nesting depth d is open exactly when d < 2, whatever its content, the term
\* and its highlighting.
C9_OpenIffDepthBelowTwo ==
    call = "render_json_tree" =>
        \A p \in NodeLocs(tree) :
            NodeAt(tree, p).node = "container"
                => (NodeAt(tree, p).open <=> Len(p) < 2)

\* a rendered tree with an open container at depth 1 and, below it, a
\* highlighted container at depth 2 that is closed
C9_Witness ==
    /\ call = "render_json_tree"
    /\ \E p \in NodeLocs(tree) :
          /\ Len(p) = 2
          /\ NodeAt(tree, p).node = "container"
          /\ NodeAt(tree, p).highlight_class = "json-highlight"
          /\ ~NodeAt(tree, p).open
          /\ NodeAt(tree, Parent(p)).open

\* C10: render_json_tree yields 1 + (number of object keys and array
\* elements of the whole value) nodes: one node per location, a container
\* node for a container and a leaf node for a leaf, each child once, in key
\* insertion / index order, under the label of its key or index.
C10_OneNodePerLocationInOrder ==
    call = "render_json_tree" =>
        /\ CountNodes(tree) = 1 + CountEntries(data)
        /\ NodeLocs(tree) = Locs(data)
        /\ \A p \in NodeLocs(tree) :
              /\ NodeAt(tree, p).key = LabelAt(data, p)
              /\ (NodeAt(tree, p).node = "container") <=> IsContainer(ValueAt(data, p))

\* a rendered tree of a value with two children under one parent, three deep
C10_Witness ==
    /\ call = "render_json_tree"
    /\ CountNodes(tree) >= 5
    /\ \E p \in NodeLocs(tree) :
          /\ Len(p) >= 2
          /\ NodeAt(tree, Parent(p)).node = "container"
          /\ Len(NodeAt(tree, Parent(p)).content) = 2

====
